---- MODULE Spec2Model ----
(***************************************************************************)
(* A model of the Markdown-file creation flow (src/utils/createMarkdown.ts)*)
(* and of the two destructive list actions of FileListItem.tsx.            *)
(*                                                                         *)
(* A string is a sequence of characters; a character is a one-character    *)
(* TLA+ string, or, for a UTF-16 code unit outside ASCII, its name         *)
(* ("u00E9").  A file's content, a title, a tag and a file name are such   *)
(* sequences, so that replace(), toLowerCase() and join() are computed the *)
(* way the JavaScript does.                                                *)
(***************************************************************************)
EXTENDS Integers, Sequences, FiniteSets, TLC

VARIABLES
    fs,         \* createMarkdown: path -> content of the file, or NoFile
    dirs,       \* createMarkdown: the directories that exist
    prefEditor, \* createMarkdown: preferences.defaultEditor
    call,       \* createMarkdown: invocation -> its position, inputs, result, history
    render,     \* template renderer run on its own: inputs and result
    namer,      \* filename deriver run on its own: input and result
    disk,       \* list actions: the paths that exist on disk
    handler     \* list actions: handler run -> its position and history

vars == << fs, dirs, prefEditor, call, render, namer, disk, handler >>
createVars == << fs, dirs, prefEditor, call >>
listVars == << disk, handler >>

(***************************************************************************)
(* Bounds of the model.                                                    *)
(***************************************************************************)
MaxTitleLen == 2
MaxTags == 2
NumCalls == 2
NumHandlers == 2

(***************************************************************************)
(* Strings.                                                                *)
(***************************************************************************)
RECURSIVE Join(_, _)
\* Array.prototype.join
Join(list, sep) ==
    IF list = << >> THEN << >>
    ELSE IF Len(list) = 1 THEN list[1]
    ELSE list[1] \o sep \o Join(Tail(list), sep)

\* the substring of s that starts at i equals pat
MatchAt(s, pat, i) ==
    /\ i + Len(pat) - 1 <= Len(s)
    /\ SubSeq(s, i, i + Len(pat) - 1) = pat

RECURSIVE GetSubstitution(_, _, _, _, _)
\* String.prototype.replace's expansion of a replacement string (ECMAScript
\* GetSubstitution) for a pattern without capture groups: $$ is a dollar, $& the
\* match, $ with u0060 (the backtick) the text before it, $' the text after it; any other $ stays.
GetSubstitution(repl, k, matched, before, after) ==
    IF k > Len(repl) THEN << >>
    ELSE IF repl[k] = "$" /\ k < Len(repl) /\ repl[k + 1] \in {"$", "&", "u0060", "'"}
    THEN (CASE repl[k + 1] = "$" -> << "$" >>
            [] repl[k + 1] = "&" -> matched
            [] repl[k + 1] = "u0060" -> before
            [] repl[k + 1] = "'" -> after)
         \o GetSubstitution(repl, k + 2, matched, before, after)
    ELSE << repl[k] >> \o GetSubstitution(repl, k + 1, matched, before, after)

\* where pat (not empty) matches in s at or after i
Matches(s, pat, i) ==
    { j \in i..(Len(s) - Len(pat) + 1) : s[j] = pat[1] /\ MatchAt(s, pat, j) }

\* where the first match of pat at or after i starts, or 0 if there is none
NextMatch(s, pat, i) ==
    LET found == Matches(s, pat, i)
    IN  IF found = { } THEN 0 ELSE CHOOSE j \in found : \A k \in found : j <= k

RECURSIVE ReplaceFrom(_, _, _, _)
\* the part of s from i on, with the matches in it replaced
ReplaceFrom(s, pat, repl, i) ==
    LET j == NextMatch(s, pat, i)
    IN  IF j = 0 THEN SubSeq(s, i, Len(s))
        ELSE SubSeq(s, i, j - 1)
             \o GetSubstitution(repl, 1, pat, SubSeq(s, 1, j - 1),
                                SubSeq(s, j + Len(pat), Len(s)))
             \o ReplaceFrom(s, pat, repl, j + Len(pat))

\* s.replace(/pat/g, repl) for a pattern that is a literal text: every match, left
\* to right, none overlapping, the replacement text not scanned again
ReplaceAll(s, pat, repl) == ReplaceFrom(s, pat, repl, 1)

(***************************************************************************)
(* Characters.                                                             *)
(***************************************************************************)
AsciiLower == << "a", "b", "c", "d", "e", "f", "g", "h", "i", "j", "k", "l", "m",
                 "n", "o", "p", "q", "r", "s", "t", "u", "v", "w", "x", "y", "z" >>
AsciiUpper == << "A", "B", "C", "D", "E", "F", "G", "H", "I", "J", "K", "L", "M",
                 "N", "O", "P", "Q", "R", "S", "T", "U", "V", "W", "X", "Y", "Z" >>
Digit == << "0", "1", "2", "3", "4", "5", "6", "7", "8", "9" >>
Range(f) == { f[i] : i \in DOMAIN f }
IndexOf(f, c) == CHOOSE i \in DOMAIN f : f[i] = c
AsciiLowerSet == Range(AsciiLower)
AsciiUpperSet == Range(AsciiUpper)
DigitSet == Range(Digit)
\* an ASCII capital's small letter, and a small letter's capital
LowerOf == [ c \in AsciiUpperSet |-> AsciiLower[IndexOf(AsciiUpper, c)] ]
UpperOf == [ c \in AsciiLowerSet |-> AsciiUpper[IndexOf(AsciiLower, c)] ]

\* String.prototype.toLowerCase on one code unit.  u0130 (capital I with dot) becomes
\* two code units, u212A (the Kelvin sign) becomes k; the other code units of the
\* model that are not ASCII capitals are their own lower case.
ToLowerChar(c) ==
    IF c \in AsciiUpperSet THEN << LowerOf[c] >>
    ELSE IF c = "u0130" THEN << "i", "u0307" >>
    ELSE IF c = "u212A" THEN << "k" >>
    ELSE << c >>

RECURSIVE ToLowerCase(_)
ToLowerCase(s) ==
    IF s = << >> THEN << >> ELSE ToLowerChar(Head(s)) \o ToLowerCase(Tail(s))

\* The regular expression's Canonicalize under the i flag without the u flag: the
\* code unit's upper case, unless that would turn a code unit outside ASCII into an
\* ASCII one (u017F, the long s, whose upper case is S; u0131, whose upper case is I).
Canonicalize(c) ==
    IF c \in AsciiLowerSet THEN UpperOf[c] ELSE c

\* IsUnsafeChar as the u flag would make it: the long s folds to s and is a letter
IsUnsafeCharFolded(c) ==
    ~ (\/ c \in AsciiLowerSet \cup AsciiUpperSet \cup { "u017F", "u212A" }
       \/ c \in DigitSet)

\* one code unit against /[^a-z0-9]/gi: the class a-z canonicalized is A-Z
IsUnsafeChar(c) ==
    ~ (\/ Canonicalize(c) \in AsciiUpperSet
       \/ c \in DigitSet)

(***************************************************************************)
(* The templates table.                                                    *)
(***************************************************************************)
templates_empty == << >>

templates_basic ==
    << "#", " ", "{", "{", "t", "i", "t", "l", "e", "}", "}", "\n", "\n", "C", "r", "e", "a", "t",
    "e", "d", ":", " ", "{", "{", "d", "a", "t", "e", "}", "}", "\n", "T", "a", "g", "s", ":", " ",
    "{", "{", "t", "a", "g", "s", "}", "}", "\n", "\n", "#", "#", " ", "C", "o", "n", "t", "e",
    "n", "t", "\n", "\n" >>

templates_meeting ==
    << "#", " ", "M", "e", "e", "t", "i", "n", "g", ":", " ", "{", "{", "t", "i", "t", "l", "e", "}",
    "}", "\n", "\n", "D", "a", "t", "e", ":", " ", "{", "{", "d", "a", "t", "e", "}", "}", "\n",
    "P", "a", "r", "t", "i", "c", "i", "p", "a", "n", "t", "s", ":", " ", "\n", "T", "a", "g", "s",
    ":", " ", "{", "{", "t", "a", "g", "s", "}", "}", "\n", "\n", "#", "#", " ", "A", "g", "e",
    "n", "d", "a", "\n", "\n", "-", " ", "\n", "\n", "#", "#", " ", "N", "o", "t", "e", "s", "\n",
    "\n", "-", " ", "\n", "\n", "#", "#", " ", "A", "c", "t", "i", "o", "n", " ", "I", "t", "e",
    "m", "s", "\n", "\n", "-", " ", "[", " ", "]", " ", "\n" >>

templates_blog ==
    << "-", "-", "-", "\n", "t", "i", "t", "l", "e", ":", " ", "\"", "{", "{", "t", "i", "t", "l",
    "e", "}", "}", "\"", "\n", "d", "a", "t", "e", ":", " ", "\"", "{", "{", "d", "a", "t", "e",
    "}", "}", "\"", "\n", "t", "a", "g", "s", ":", " ", "[", "{", "{", "t", "a", "g", "s", "}",
    "}", "]", "\n", "d", "r", "a", "f", "t", ":", " ", "t", "r", "u", "e", "\n", "-", "-", "-",
    "\n", "\n", "#", " ", "{", "{", "t", "i", "t", "l", "e", "}", "}", "\n", "\n", "#", "#", " ",
    "I", "n", "t", "r", "o", "d", "u", "c", "t", "i", "o", "n", "\n", "\n" >>

templates_project ==
    << "#", " ", "P", "r", "o", "j", "e", "c", "t", ":", " ", "{", "{", "t", "i", "t", "l", "e", "}",
    "}", "\n", "\n", "S", "t", "a", "r", "t", " ", "D", "a", "t", "e", ":", " ", "{", "{", "d",
    "a", "t", "e", "}", "}", "\n", "S", "t", "a", "t", "u", "s", ":", " ", "P", "l", "a", "n", "n",
    "i", "n", "g", "\n", "T", "a", "g", "s", ":", " ", "{", "{", "t", "a", "g", "s", "}", "}",
    "\n", "\n", "#", "#", " ", "O", "v", "e", "r", "v", "i", "e", "w", "\n", "\n", "#", "#", " ",
    "G", "o", "a", "l", "s", "\n", "\n", "-", " ", "\n", "\n", "#", "#", " ", "T", "i", "m", "e",
    "l", "i", "n", "e", "\n", "\n", "-", " ", "[", " ", "]", " ", "\n", "\n", "#", "#", " ", "R",
    "e", "s", "o", "u", "r", "c", "e", "s", "\n", "\n", "-", " ", "\n" >>


\* the own properties of the templates object
templates ==
    [ empty |-> templates_empty, basic |-> templates_basic,
      meeting |-> templates_meeting, blog |-> templates_blog,
      project |-> templates_project ]

TITLE == << "{", "{", "t", "i", "t", "l", "e", "}", "}" >>
DATE == << "{", "{", "d", "a", "t", "e", "}", "}" >>
TAGS == << "{", "{", "t", "a", "g", "s", "}", "}" >>

\* What templates inherits from Object.prototype: each a function or an object,
\* none a string.
ObjectPrototypeKeys ==
    { "constructor", "toString", "toLocaleString", "valueOf", "hasOwnProperty",
      "isPrototypeOf", "propertyIsEnumerable", "__proto__" }

\* templates[template as keyof typeof templates]: an own property, else what the
\* prototype chain holds, else undefined
Lookup(template) ==
    IF template \in DOMAIN templates
    THEN [ type |-> "string", str |-> templates[template] ]
    ELSE IF template \in ObjectPrototypeKeys
    THEN [ type |-> "object", str |-> << >> ]
    ELSE [ type |-> "undefined", str |-> << >> ]

\* JavaScript's truthiness of a looked-up value: the empty string and undefined are
\* falsy
Truthy(v) ==
    \/ v.type = "object"
    \/ v.type = "string" /\ v.str # << >>

\* templates[template] || templates.basic
SelectTemplate(template) ==
    IF Truthy(Lookup(template)) THEN Lookup(template)
    ELSE [ type |-> "string", str |-> templates.basic ]

\* the default of the destructured parameter: template = "basic"
TemplateKey(opt) == IF opt.given THEN opt.key ELSE "basic"

(***************************************************************************)
(* The date.                                                               *)
(***************************************************************************)
RECURSIVE Pad(_, _)
\* a number in decimal, zero-padded to w digits
Pad(n, w) == IF w = 0 THEN << >> ELSE Pad(n \div 10, w - 1) \o << Digit[(n % 10) + 1] >>

\* Date.prototype.toISOString for a year of four digits
ToISOString(now) ==
    Pad(now.y, 4) \o << "-" >> \o Pad(now.m, 2) \o << "-" >> \o Pad(now.d, 2)
    \o << "T" >> \o Pad(now.h, 2) \o << ":", "0", "0", ":", "0", "0", ".", "0", "0", "0", "Z" >>

\* s.split(sep)[0] for a separator of one character
SplitFirst(s, sep) ==
    IF \E i \in 1..Len(s) : s[i] = sep
    THEN SubSeq(s, 1, (CHOOSE i \in 1..Len(s) : s[i] = sep /\ \A j \in 1..(i - 1) : s[j] # sep) - 1)
    ELSE s

formattedDate(now) == SplitFirst(ToISOString(now), "T")

(***************************************************************************)
(* The template renderer (createMarkdownFileHelper, lines 149-159).        *)
(***************************************************************************)
\* tag.startsWith('#') ? tag : `#${tag}`
FormatTag(tag) == IF Len(tag) > 0 /\ tag[1] = "#" THEN tag ELSE << "#" >> \o tag

formattedTags(tags) == [ i \in 1..Len(tags) |-> FormatTag(tags[i]) ]

\* formattedTags && formattedTags.length > 0 ? formattedTags.join(", ") : ""
TagsText(tags) ==
    IF Len(formattedTags(tags)) > 0 THEN Join(formattedTags(tags), << ",", " " >>)
    ELSE << >>

\* content.replace(/{{title}}/g, ...).replace(/{{date}}/g, ...).replace(/{{tags}}/g, ...)
ReplacePlaceholders(content, title, now, tags) ==
    ReplaceAll(ReplaceAll(ReplaceAll(content, TITLE, title), DATE, formattedDate(now)),
               TAGS, TagsText(tags))

\* Lines 149-159 as a whole: the content to write, or the TypeError of calling
\* replace on a value that is not a string.
RenderContent(opt, title, now, tags) ==
    LET chosen == SelectTemplate(TemplateKey(opt))
    IN  IF chosen.type = "string"
        THEN [ ok |-> TRUE,
               content |-> ReplacePlaceholders(chosen.str, title, now, tags) ]
        ELSE [ ok |-> FALSE, content |-> << >> ]

(***************************************************************************)
(* The filename deriver (createMarkdownFileHelper, lines 129-131).         *)
(***************************************************************************)
\* title.replace(/[^a-z0-9]/gi, "-")
ReplaceUnsafe(title) ==
    [ i \in 1..Len(title) |-> IF IsUnsafeChar(title[i]) THEN "-" ELSE title[i] ]

sanitizedTitle(title) == ToLowerCase(ReplaceUnsafe(title))

MD == << ".", "m", "d" >>

fileName(title) == sanitizedTitle(title) \o MD

(***************************************************************************)
(* Paths, toasts and the inputs of the model.                              *)
(***************************************************************************)
\* path.join(homedir(), "Desktop")
Desktop == "~/Desktop"

\* path.join(baseDir, fileName): the directory, then the file name's characters.
\* The empty sequence is the empty string, which is no path.
JoinPath(dir, name) == << dir >> \o name

Toast(style, title, message) == [ style |-> style, title |-> title, message |-> message ]

\* all sequences over S of length at most n
SeqsUpTo(S, n) == UNION { [1..k -> S] : k \in 0..n }

NoTemplate == [ given |-> FALSE, key |-> "" ]
Template(k) == [ given |-> TRUE, key |-> k ]

(***************************************************************************)
(* The filename deriver on its own: every title of at most MaxTitleLen     *)
(* code units over NameAlphabet (uD83D is one half of a surrogate pair).   *)
(***************************************************************************)
NameAlphabet ==
    { "a", "Z", "7", "-", " ", "_", ".", "/", "$", "u00E9", "u017F", "u0130", "u212A",
      "uD83D" }

NameTitles == SeqsUpTo(NameAlphabet, MaxTitleLen)

NamerOff == [ pc |-> "off", title |-> << >>, name |-> << >> ]

DeriveFileName ==
    /\ namer.pc = "ready"
    /\ namer' = [ namer EXCEPT !.pc = "done", !.name = fileName(namer.title) ]
    /\ UNCHANGED << createVars, render, listVars >>

(***************************************************************************)
(* The template renderer on its own.                                       *)
(***************************************************************************)
RenderAlphabet == { "a", "$", "&" }

RenderTitles ==
    SeqsUpTo(RenderAlphabet, MaxTitleLen)
    \cup { << "M", "y", " ", "N", "o", "t", "e" >>,
           TITLE, DATE, TAGS,
           << "a", "$", "'", "b" >>,
           << "$", "u0060" >> }

RenderTagSet == { << "w", "o", "r", "k" >>, << "#", "u", "r", "g", "e", "n", "t" >>, << "$", "&" >> }

RenderTags == SeqsUpTo(RenderTagSet, MaxTags)

KnownKeys == { "empty", "basic", "meeting", "blog", "project" }

RenderKeys ==
    { Template(k) : k \in KnownKeys \cup { "", "journal", "Basic", "constructor", "__proto__" } }
    \cup { NoTemplate }

RenderDates ==
    { [ y |-> 2026, m |-> 11, d |-> 3, h |-> 9 ], [ y |-> 2027, m |-> 1, d |-> 31, h |-> 23 ] }

RenderOff ==
    [ pc |-> "off", opt |-> NoTemplate, title |-> << >>, tags |-> << >>,
      now |-> [ y |-> 0, m |-> 0, d |-> 0, h |-> 0 ], ok |-> FALSE, content |-> << >> ]

Render ==
    /\ render.pc = "ready"
    /\ LET r == RenderContent(render.opt, render.title, render.now, render.tags)
       IN  render' = [ render EXCEPT !.pc = "done", !.ok = r.ok, !.content = r.content ]
    /\ UNCHANGED << createVars, namer, listVars >>

(***************************************************************************)
(* createMarkdown: the invocations, interleaved at their awaits.           *)
(***************************************************************************)
Calls == 1..NumCalls

CallTitles == { << "A", " ", "b" >>, << "a", "-", "b" >> }
CallTemplates == { NoTemplate, Template("toString") }
CallTags == { << << "w", "o", "r", "k" >> >> }
\* targetPath: absent (the empty string here), or a directory
CallTargets == { "", "/notes" }
Today == [ y |-> 2026, m |-> 11, d |-> 3, h |-> 9 ]

Directories == { Desktop } \cup (CallTargets \ { "" })
Paths == { JoinPath(d, fileName(t)) : d \in Directories, t \in CallTitles }

\* path.basename(baseDir)
Basename(dir) ==
    IF dir = Desktop THEN << "D", "e", "s", "k", "t", "o", "p" >>
    ELSE << "n", "o", "t", "e", "s" >>

NoFile == [ exists |-> FALSE, content |-> << >>, writes |-> 0 ]
OldContent == << "o", "l", "d" >>
\* a file that is on the Desktop before any invocation
OldPath == JoinPath(Desktop, fileName(<< "a", "-", "b" >>))

\* targetPath || path.join(homedir(), "Desktop")
baseDir(targetPath) == IF targetPath # "" THEN targetPath ELSE Desktop

filePath(c) == JoinPath(baseDir(c.targetPath), fileName(c.title))

Idle ==
    [ pc |-> "idle", title |-> << >>, opt |-> NoTemplate, tags |-> << >>,
      targetPath |-> "", found |-> FALSE, wrote |-> FALSE, toasts |-> << >>,
      editor |-> "", typoraPath |-> "unchecked", attempts |-> << >>, ret |-> << >> ]

\* TargetExists with the existence check left out
TargetExistsUnchecked(f, path) == FALSE

\* fs.existsSync(filePath)
TargetExists(f, path) == f[path].exists

\* fs.writeFileSync(filePath, content)
WriteFile(f, path, content) ==
    [ f EXCEPT ![path] = [ exists |-> TRUE, content |-> content, writes |-> @.writes + 1 ] ]

\* the catch block of createMarkdownFileHelper: the failure toast is shown
Caught(c, error) ==
    [ c EXCEPT !.pc = "failedToast",
               !.toasts = Append(@, Toast("Failure", "Failed to create Markdown file",
                                          << error >>)) ]

\* createMarkdownFileHelper from its entry to its first await (lines 125-169): the
\* directory, the existence check, the rendering and the write, in one turn of the
\* event loop.  mkdirOk and writeOk are what the file system answers.
Begin(p, title, opt, tags, targetPath, mkdirOk, writeOk) ==
    /\ call[p].pc = "idle"
    /\ LET c == [ call[p] EXCEPT !.title = title, !.opt = opt, !.tags = tags,
                                 !.targetPath = targetPath ]
           dir == baseDir(targetPath)
           name == fileName(title)
           path == JoinPath(dir, name)
           made == dir \notin dirs /\ mkdirOk
           r == RenderContent(opt, title, Today, tags)
       IN  IF dir \notin dirs /\ ~ mkdirOk
           THEN /\ call' = [ call EXCEPT ![p] = Caught(c, "EACCES") ]
                /\ UNCHANGED << fs, dirs >>
           ELSE /\ dirs' = IF made THEN dirs \cup { dir } ELSE dirs
                /\ IF TargetExists(fs, path)
                   THEN /\ call' = [ call EXCEPT ![p] =
                                [ c EXCEPT !.pc = "existsToast", !.found = TRUE,
                                           !.toasts = Append(@, Toast("Failure",
                                                "File already exists", name)) ] ]
                        /\ fs' = fs
                   ELSE IF ~ r.ok
                   THEN /\ call' = [ call EXCEPT ![p] = Caught(c, "TypeError") ]
                        /\ fs' = fs
                   ELSE IF ~ writeOk
                   THEN /\ call' = [ call EXCEPT ![p] = Caught(c, "EIO") ]
                        /\ fs' = fs
                   ELSE /\ fs' = WriteFile(fs, path, r.content)
                        /\ call' = [ call EXCEPT ![p] =
                                [ c EXCEPT !.pc = "createdToast", !.wrote = TRUE,
                                           !.toasts = Append(@, Toast("Success",
                                                "Markdown file created",
                                                name \o << " ", "i", "n", " " >>
                                                     \o Basename(dir))) ] ]
    /\ UNCHANGED << prefEditor, render, namer, listVars >>

\* lines 141-146: the toast awaited, the sentinel returned
ReturnExists(p) ==
    /\ call[p].pc = "existsToast"
    /\ call' = [ call EXCEPT ![p] = [ @ EXCEPT !.pc = "done", !.ret = << >> ] ]
    /\ UNCHANGED << fs, dirs, prefEditor, render, namer, listVars >>

\* lines 177-182: the failure toast awaited, the sentinel returned
ReturnFailed(p) ==
    /\ call[p].pc = "failedToast"
    /\ call' = [ call EXCEPT ![p] = [ @ EXCEPT !.pc = "done", !.ret = << >> ] ]
    /\ UNCHANGED << fs, dirs, prefEditor, render, namer, listVars >>

(***************************************************************************)
(* openWithEditor (lines 87-116).                                          *)
(***************************************************************************)
\* one launch: "app" is open -a, "direct" the install path, "default" open()
Attempt(step, result) == [ step |-> step, result |-> result ]

Launch(c, pc, step) ==
    [ c EXCEPT !.pc = pc, !.attempts = Append(@, Attempt(step, "pending")) ]

\* the pending launch's outcome
Settle(c, result) ==
    [ c EXCEPT !.attempts = [ @ EXCEPT ![Len(@)] = Attempt(@.step, result) ] ]

\* openWithEditor returned, and createMarkdownFileHelper returns filePath (line 174)
Opened(c) == [ Settle(c, "ok") EXCEPT !.pc = "done", !.ret = filePath(c) ]

\* preferences.defaultEditor || "Typora"
defaultEditor(pref) == IF pref # "" THEN pref ELSE "Typora"

\* DirectPathApplies without the comparison of the editor's name
DirectPathAppliesToAny(editor, present) == present

\* lines 100-102: the direct path is tried for Typora alone, and if it is there
DirectPathApplies(editor, present) == editor = "Typora" /\ present

\* lines 165-172, 88-94: the success toast awaited, openWithEditor entered.
\* getPreferenceValues throwing lands in the outer catch (lines 111-114).
StartOpen(p, prefsOk) ==
    /\ call[p].pc = "createdToast"
    /\ LET c == call[p]
       IN  call' = [ call EXCEPT ![p] =
                IF prefsOk
                THEN Launch([ c EXCEPT !.editor = defaultEditor(prefEditor) ],
                            "openApp", "app")
                ELSE Launch(c, "openFallback", "default") ]
    /\ UNCHANGED << fs, dirs, prefEditor, render, namer, listVars >>

\* lines 94-109: open -a has ended; present is what existsSync(typoraPath) answers
AppEnds(p, ok, present) ==
    /\ call[p].pc = "openApp"
    /\ LET c == call[p]
           failed == [ Settle(c, "failed") EXCEPT !.typoraPath =
                         IF c.editor # "Typora" THEN "unchecked"
                         ELSE IF present THEN "exists" ELSE "absent" ]
       IN  call' = [ call EXCEPT ![p] =
                IF ok THEN Opened(c)
                ELSE IF DirectPathApplies(c.editor, present)
                THEN Launch(failed, "openDirect", "direct")
                ELSE Launch(failed, "openDefault", "default") ]
    /\ UNCHANGED << fs, dirs, prefEditor, render, namer, listVars >>

\* lines 103-104, 111-114: the direct launch has ended
DirectEnds(p, ok) ==
    /\ call[p].pc = "openDirect"
    /\ call' = [ call EXCEPT ![p] =
            IF ok THEN Opened(call[p])
            ELSE Launch(Settle(call[p], "failed"), "openFallback", "default") ]
    /\ UNCHANGED << fs, dirs, prefEditor, render, namer, listVars >>

\* lines 109, 111-114: the default opener of the inner catch has ended
DefaultEnds(p, ok) ==
    /\ call[p].pc = "openDefault"
    /\ call' = [ call EXCEPT ![p] =
            IF ok THEN Opened(call[p])
            ELSE Launch(Settle(call[p], "failed"), "openFallback", "default") ]
    /\ UNCHANGED << fs, dirs, prefEditor, render, namer, listVars >>

\* lines 114, 175-181: the default opener of the outer catch has ended; its
\* rejection leaves openWithEditor and is caught by createMarkdownFileHelper
FallbackEnds(p, ok) ==
    /\ call[p].pc = "openFallback"
    /\ call' = [ call EXCEPT ![p] =
            IF ok THEN Opened(call[p])
            ELSE Caught(Settle(call[p], "failed"), "OpenError") ]
    /\ UNCHANGED << fs, dirs, prefEditor, render, namer, listVars >>

(***************************************************************************)
(* The list item's destructive actions (FileListItem.tsx).                 *)
(***************************************************************************)
Handlers == 1..NumHandlers

\* the files the list shows; one of them may be gone from the disk already
ListedFiles == { "/notes/a.md", "/notes/b.md" }

HandlerIdle ==
    [ pc |-> "idle", kind |-> "", file |-> "", confirmed |-> "unasked",
      removal |-> "none", wasOnDisk |-> FALSE, toasts |-> << >>, refreshed |-> 0 ]

\* Confirmed with the alert's answer ignored
ConfirmedWhateverAnswer(answer) == TRUE

\* the truthiness of what confirmAlert resolved to (line 57)
Confirmed(answer) == answer

\* TrashSucceeded with a falsy result taken for a success
TrashSucceededUnlessThrown(outcome) == outcome # "throw"

\* if (success) (line 88): moveToTrash resolved to a truthy value
TrashSucceeded(outcome) == outcome = "true"

\* showToast({ style: Toast.Style.Success, ... }); revalidate();  A revalidate that
\* throws is caught by the handler's catch block, which shows the failure toast.
Succeeded(h, title, failTitle, revalidateOk) ==
    [ h EXCEPT !.pc = "done", !.refreshed = @ + 1,
               !.toasts = IF revalidateOk
                          THEN Append(@, Toast("Success", title, h.file))
                          ELSE Append(Append(@, Toast("Success", title, h.file)),
                                      Toast("Failure", failTitle, "RevalidateError")) ]

\* showFailureToast({ title, message: error.message })
Failed(h, title, message) ==
    [ h EXCEPT !.pc = "done", !.toasts = Append(@, Toast("Failure", title, message)) ]

\* what fs.unlinkSync throws: the file is not there, or may not be removed
UnlinkError(d, file) == IF file \in d THEN "EPERM" ELSE "ENOENT"

\* confirmDelete up to its await (lines 56-66): the alert is shown
ConfirmDelete(k, file) ==
    /\ handler[k].pc = "idle"
    /\ handler' = [ handler EXCEPT ![k] =
            [ @ EXCEPT !.pc = "alert", !.kind = "delete", !.file = file ] ]
    /\ UNCHANGED << disk, createVars, render, namer >>

\* lines 66-81: the alert has resolved
AlertEnds(k, answer, ioOk, revalidateOk) ==
    /\ handler[k].pc = "alert"
    /\ LET h == [ handler[k] EXCEPT !.confirmed = IF answer THEN "yes" ELSE "no" ]
           removed == h.file \in disk /\ ioOk
           called == [ h EXCEPT !.removal = IF removed THEN "ok" ELSE "threw",
                                !.wasOnDisk = h.file \in disk ]
       IN  IF ~ Confirmed(answer)
           THEN /\ handler' = [ handler EXCEPT ![k] = [ h EXCEPT !.pc = "done" ] ]
                /\ disk' = disk
           ELSE IF removed
           THEN /\ disk' = disk \ { h.file }
                /\ handler' = [ handler EXCEPT ![k] =
                        Succeeded(called, "File deleted", "Error deleting file",
                                  revalidateOk) ]
           ELSE /\ disk' = disk
                /\ handler' = [ handler EXCEPT ![k] =
                        Failed(called, "Error deleting file", UnlinkError(disk, h.file)) ]
    /\ UNCHANGED << createVars, render, namer >>

\* handleMoveToTrash up to its await (lines 85-87): moveToTrash is called
HandleMoveToTrash(k, file) ==
    /\ handler[k].pc = "idle"
    /\ handler' = [ handler EXCEPT ![k] =
            [ @ EXCEPT !.pc = "trashing", !.kind = "trash", !.file = file ] ]
    /\ UNCHANGED << disk, createVars, render, namer >>

\* moveToTrash (utils/fileOperations) resolves to true with the file moved away, or
\* to false, or rejects; for a path that is not on disk it does not resolve to true.
MoveToTrashOutcomes(d, file) ==
    IF file \in d THEN { "true", "false", "throw" } ELSE { "false", "throw" }

\* lines 87-103: moveToTrash has ended
TrashEnds(k, outcome, revalidateOk) ==
    /\ handler[k].pc = "trashing"
    /\ outcome \in MoveToTrashOutcomes(disk, handler[k].file)
    /\ LET h == [ handler[k] EXCEPT !.removal = outcome,
                                    !.wasOnDisk = handler[k].file \in disk ]
       IN  /\ disk' = IF outcome = "true" THEN disk \ { h.file } ELSE disk
           /\ handler' = [ handler EXCEPT ![k] =
                  IF TrashSucceeded(outcome)
                  THEN Succeeded(h, "File moved to trash", "Error moving file to trash",
                                 revalidateOk)
                  ELSE Failed(h, "Error moving file to trash",
                              IF outcome = "false" THEN "Failed to move file to trash"
                              ELSE "TrashError") ]
    /\ UNCHANGED << createVars, render, namer >>

(***************************************************************************)
(* The specifications.                                                     *)
(***************************************************************************)
CreateOff ==
    /\ fs = [ path \in Paths |-> NoFile ]
    /\ dirs = { Desktop }
    /\ prefEditor = ""
    /\ call = [ p \in Calls |-> Idle ]

ListOff ==
    /\ disk = { }
    /\ handler = [ k \in Handlers |-> HandlerIdle ]

\* createMarkdown, any number of invocations in flight
Init ==
    /\ fs = [ path \in Paths |->
                IF path = OldPath
                THEN [ exists |-> TRUE, content |-> OldContent, writes |-> 0 ]
                ELSE NoFile ]
    /\ dirs = { Desktop }
    /\ prefEditor \in { "", "Typora", "Code" }
    /\ call = [ p \in Calls |-> Idle ]
    /\ render = RenderOff
    /\ namer = NamerOff
    /\ ListOff

Next ==
    \E p \in Calls :
        \/ \E title \in CallTitles, opt \in CallTemplates, tags \in CallTags,
              targetPath \in CallTargets, mkdirOk \in BOOLEAN, writeOk \in BOOLEAN :
                Begin(p, title, opt, tags, targetPath, mkdirOk, writeOk)
        \/ ReturnExists(p)
        \/ ReturnFailed(p)
        \/ \E prefsOk \in BOOLEAN : StartOpen(p, prefsOk)
        \/ \E ok \in BOOLEAN, present \in BOOLEAN : AppEnds(p, ok, present)
        \/ \E ok \in BOOLEAN : DirectEnds(p, ok)
        \/ \E ok \in BOOLEAN : DefaultEnds(p, ok)
        \/ \E ok \in BOOLEAN : FallbackEnds(p, ok)

Spec == Init /\ [][Next]_vars

\* the template renderer on every input of the model
InitRender ==
    /\ render \in { [ RenderOff EXCEPT !.pc = "ready", !.opt = o, !.title = t,
                                       !.tags = g, !.now = n ] :
                    o \in RenderKeys, t \in RenderTitles, g \in RenderTags,
                    n \in RenderDates }
    /\ namer = NamerOff
    /\ CreateOff
    /\ ListOff

NextRender == Render

SpecRender == InitRender /\ [][NextRender]_vars

\* the filename deriver on every title of the model
InitName ==
    /\ namer \in { [ NamerOff EXCEPT !.pc = "ready", !.title = t ] : t \in NameTitles }
    /\ render = RenderOff
    /\ CreateOff
    /\ ListOff

NextName == DeriveFileName

SpecName == InitName /\ [][NextName]_vars

\* the list item's delete and trash handlers
InitList ==
    /\ disk \in SUBSET ListedFiles
    /\ handler = [ k \in Handlers |-> HandlerIdle ]
    /\ render = RenderOff
    /\ namer = NamerOff
    /\ CreateOff

NextList ==
    \E k \in Handlers :
        \/ \E file \in ListedFiles : ConfirmDelete(k, file)
        \/ \E answer \in BOOLEAN, ioOk \in BOOLEAN, revalidateOk \in BOOLEAN :
                AlertEnds(k, answer, ioOk, revalidateOk)
        \/ \E file \in ListedFiles : HandleMoveToTrash(k, file)
        \/ \E outcome \in { "true", "false", "throw" }, revalidateOk \in BOOLEAN :
                TrashEnds(k, outcome, revalidateOk)

SpecList == InitList /\ [][NextList]_vars


(***************************************************************************)
(* The filename deriver's contract.                                        *)
(***************************************************************************)
IsAsciiLetter(c) == c \in Range(AsciiLower) \cup Range(AsciiUpper)

\* the lower case of an ASCII letter
LowerOfAscii(c) ==
    IF c \in Range(AsciiUpper) THEN AsciiLower[IndexOf(AsciiUpper, c)] ELSE c

\* C9: for any title the derived filename ends in .md, its stem is as long as the
\* title and holds only a-z, 0-9 and the hyphen: at each place the title's ASCII
\* letter in lower case, its digit, or a hyphen for any other character.
FileNameSafe ==
    namer.pc = "done" =>
        LET n == Len(namer.name) - 3
            stem == SubSeq(namer.name, 1, n)
        IN  /\ n >= 0
            /\ SubSeq(namer.name, n + 1, n + 3) = << ".", "m", "d" >>
            /\ n = Len(namer.title)
            /\ \A i \in 1..n :
                /\ stem[i] \in Range(AsciiLower) \cup Range(Digit) \cup { "-" }
                /\ stem[i] = IF IsAsciiLetter(namer.title[i])
                             THEN LowerOfAscii(namer.title[i])
                             ELSE IF namer.title[i] \in Range(Digit)
                             THEN namer.title[i]
                             ELSE "-"

\* a title of a character outside ASCII whose lower case is an ASCII letter, and a
\* capital: the name is -z.md
FileNameSafeWitness ==
    /\ namer.pc = "done"
    /\ namer.title = << "u212A", "Z" >>
    /\ namer.name = << "-", "z", ".", "m", "d" >>

TrashContract ==
    \A k \in Handlers :
        LET h == handler[k]
        IN  h.kind = "trash" =>
                /\ h.confirmed = "unasked"
                /\ h.removal \in { "false", "throw" } =>
                        /\ h.pc = "done"
                        /\ Len(h.toasts) = 1
                        /\ h.toasts[1].style = "Failure"
                        /\ h.toasts[1].title = "Error moving file to trash"
                        /\ h.refreshed = 0
                /\ h.removal = "true" =>
                        /\ h.pc = "done"
                        /\ h.toasts[1] = Toast("Success", "File moved to trash", h.file)
                        /\ h.refreshed = 1
                /\ (h.pc = "done" /\ ~ h.wasOnDisk) =>
                        h.toasts[1].style = "Failure" /\ h.refreshed = 0

\* moveToTrash answered false for a file that is on disk
TrashContractWitness ==
    \E k \in Handlers :
        /\ handler[k].kind = "trash" /\ handler[k].pc = "done"
        /\ handler[k].removal = "false" /\ handler[k].wasOnDisk
        /\ handler[k].refreshed = 0


(***************************************************************************)
(* createMarkdown's contracts.                                             *)
(***************************************************************************)
Writers(path) == { p \in Calls : call[p].wrote /\ filePath(call[p]) = path }

\* C1: no overwrite, ever.  No path is written twice and the file that was there
\* before any invocation keeps its content; a file an invocation wrote holds what
\* that invocation rendered, whatever ran after it; an invocation that found its
\* target path on disk wrote nothing, showed the failure toast whose message is the
\* file name, and returns the empty string.
NoOverwrite ==
    /\ fs[OldPath] = [ exists |-> TRUE, content |-> OldContent, writes |-> 0 ]
    /\ \A path \in Paths :
        /\ fs[path].writes <= 1
        /\ fs[path].writes = Cardinality(Writers(path))
        /\ \A p \in Writers(path) :
                /\ fs[path].exists
                /\ fs[path].content
                     = RenderContent(call[p].opt, call[p].title, Today, call[p].tags).content
    /\ \A p \in Calls :
        LET c == call[p]
        IN  c.found =>
                /\ ~ c.wrote
                /\ c.toasts = << Toast("Failure", "File already exists", fileName(c.title)) >>
                /\ c.pc \in { "existsToast", "done" }
                /\ c.pc = "done" => c.ret = << >>

\* an invocation has returned the sentinel because another invocation, of another
\* title with the same file name, had written the path
NoOverwriteWitness ==
    \E p, q \in Calls :
        /\ call[p].found /\ call[p].pc = "done" /\ call[p].ret = << >>
        /\ call[q].wrote /\ filePath(call[q]) = filePath(call[p])
        /\ call[q].title # call[p].title

\* a launch step's place in the fallback order
Rank(step) == CASE step = "app" -> 1 [] step = "direct" -> 2 [] step = "default" -> 3

\* C3: the launches of openWithEditor come in the order named application, install
\* path, default opener; every launch but the last one made has failed; the install
\* path is launched only for the editor Typora with the path on disk; a failed
\* named-application launch is followed at once by the install path if that applies
\* and by the default opener otherwise, and a failed install-path launch by the
\* default opener.
FallbackOrder ==
    \A p \in Calls :
        LET a == call[p].attempts
            applies == call[p].editor = "Typora" /\ call[p].typoraPath = "exists"
        IN  /\ \A i \in 1..(Len(a) - 1) :
                /\ a[i].result = "failed"
                /\ Rank(a[i].step) <= Rank(a[i + 1].step)
                /\ a[i].step # "default" => Rank(a[i].step) < Rank(a[i + 1].step)
            /\ \A i \in 1..Len(a) : a[i].step = "direct" => applies
            /\ (Len(a) >= 1 /\ a[1] = Attempt("app", "failed")) =>
                    /\ Len(a) >= 2
                    /\ a[2].step = IF applies THEN "direct" ELSE "default"
            /\ (Len(a) >= 2 /\ a[2] = Attempt("direct", "failed")) =>
                    Len(a) >= 3 /\ a[3].step = "default"
            /\ (Len(a) >= 1 /\ a[Len(a)].result = "pending") =>
                    call[p].pc \in { "openApp", "openDirect", "openDefault", "openFallback" }

\* all three steps were tried, in order, and the default opener opened the file
FallbackOrderWitness ==
    \E p \in Calls :
        /\ call[p].pc = "done"
        /\ call[p].attempts = << Attempt("app", "failed"), Attempt("direct", "failed"),
                                 Attempt("default", "ok") >>

HasFailureToast(c) == \E i \in 1..Len(c.toasts) : c.toasts[i].style = "Failure"

\* C2: when the last launch of openWithEditor, the default opener, has thrown, no
\* failure toast is shown and createMarkdown returns the created file's path.
DefaultOpenFailureSwallowed ==
    \A p \in Calls :
        LET c == call[p]
        IN  (/\ c.attempts # << >>
             /\ c.attempts[Len(c.attempts)] = Attempt("default", "failed")) =>
                /\ ~ HasFailureToast(c)
                /\ c.pc = "done" => c.ret = filePath(c)

\* C10: an invocation returns a non-empty filePath exactly if it wrote the file, and
\* then the path is that of the written file.
ReturnTellsCreation ==
    \A p \in Calls :
        LET c == call[p]
        IN  c.pc = "done" =>
                /\ c.ret # << >> <=> c.wrote
                /\ c.wrote => c.ret = filePath(c)

(***************************************************************************)
(* The template renderer's contracts.                                      *)
(***************************************************************************)
\* C4: for a template key that is none of the five identifiers, or absent, the
\* rendering does not fail and is the rendering of the basic template.
UnknownKeyRendersBasic ==
    (render.pc = "done" /\ (~ render.opt.given \/ render.opt.key \notin KnownKeys)) =>
        /\ render.ok
        /\ render.content
             = ReplacePlaceholders(templates.basic, render.title, render.now, render.tags)

\* C5: for each of the five known keys the rendering is that of the key's own
\* template string.
KnownKeyRendersOwn ==
    (render.pc = "done" /\ render.opt.given /\ render.opt.key \in KnownKeys) =>
        /\ render.ok
        /\ render.content
             = ReplacePlaceholders(templates[render.opt.key], render.title, render.now,
                                   render.tags)

\* the date as YYYY-MM-DD
ExpectedDate(now) ==
    Pad(now.y, 4) \o << "-" >> \o Pad(now.m, 2) \o << "-" >> \o Pad(now.d, 2)

\* the tags, each with one # in front unless it has one, joined by ", "
ExpectedTags(tags) ==
    Join([ i \in 1..Len(tags) |->
             IF tags[i] # << >> /\ Head(tags[i]) = "#" THEN tags[i] ELSE << "#" >> \o tags[i] ],
         << ",", " " >>)

RECURSIVE Substituted(_, _, _, _, _)
\* the part of template s from i on, every token in it replaced by its value, the
\* values taken as they are and not looked into
Substituted(s, i, title, date, tags) ==
    LET starts == { NextMatch(s, TITLE, i), NextMatch(s, DATE, i),
                    NextMatch(s, TAGS, i) } \ { 0 }
    IN  IF starts = { } THEN SubSeq(s, i, Len(s))
        ELSE LET j == CHOOSE x \in starts : \A y \in starts : x <= y
                 token == IF MatchAt(s, TITLE, j) THEN TITLE
                          ELSE IF MatchAt(s, DATE, j) THEN DATE ELSE TAGS
                 value == IF token = TITLE THEN title
                          ELSE IF token = DATE THEN date ELSE tags
             IN  SubSeq(s, i, j - 1) \o value
                 \o Substituted(s, j + Len(token), title, date, tags)

\* C8: the content is the selected template with every {{title}} replaced by the
\* title as given, every {{date}} by the date as YYYY-MM-DD and every {{tags}} by
\* the normalized tags joined by ", ", all at once.
SimultaneousSubstitution ==
    (render.pc = "done" /\ render.ok) =>
        render.content
          = Substituted(SelectTemplate(TemplateKey(render.opt)).str, 1, render.title,
                        ExpectedDate(render.now), ExpectedTags(render.tags))

====
